---- MODULE Spec2Model ----
(***************************************************************************)
(* Model of source/blender/draw/intern/draw_anim_viz.c: one call of        *)
(* draw_motion_path_instance() and the colours set_motion_path_color()     *)
(* gives to the vertices of the line strip.                                *)
(*                                                                         *)
(* The inputs of the call (the bMotionPath, the bAnimVizSettings, the      *)
(* scene's current frame, the selection state and the GL state on entry)   *)
(* are chosen in Init.  The call then runs pass by pass:                   *)
(*   entry -> lines -> (restore ->) dots -> steps -> marker -> done        *)
(* Every immBegin, every vertex and every shader bind is logged so that    *)
(* properties of what was drawn can be stated over the log.                *)
(*                                                                         *)
(* Floats are kept exact as integers: intensities in 1/100, colours in     *)
(* 1/10000 of the unit range.                                              *)
(***************************************************************************)
EXTENDS Integers, Sequences, FiniteSets

(* ------------------------------ bounds --------------------------------- *)

\* frames of the cache and of the explicit window are 0 .. MaxFrame
MaxFrame == 3
\* path_bc / path_ac (frames before/after the current frame) are 0 .. MaxOffset
MaxOffset == 1
\* path_step is 1 .. MaxStep
MaxStep == 2
\* line_thickness and the GL line width / point size on entry are 1 .. MaxSize
MaxSize == 2
\* a component of mpath->color, in 1/100, is 1 .. MaxColor
MaxColor == 1

Frames == 0 .. MaxFrame

(* --------------------------- flags and enums --------------------------- *)

MOTIONPATH_TYPE_RANGE == "MOTIONPATH_TYPE_RANGE"
MOTIONPATH_TYPE_ACFRA == "MOTIONPATH_TYPE_ACFRA"
MOTIONPATH_FLAG_LINES == "MOTIONPATH_FLAG_LINES"
MOTIONPATH_FLAG_CUSTOM == "MOTIONPATH_FLAG_CUSTOM"
MOTIONPATH_VIEW_KFRAS == "MOTIONPATH_VIEW_KFRAS"

GWN_PRIM_LINE_STRIP == "GWN_PRIM_LINE_STRIP"
GWN_PRIM_POINTS == "GWN_PRIM_POINTS"

VARIABLES
    \* bAnimVizSettings *avs
    path_type, path_sf, path_ef, path_bc, path_ac, path_step, path_viewflag,
    \* bMotionPath *mpath  (points is TRUE for a buffer, FALSE for NULL)
    start_frame, end_frame, points, flag, line_thickness, color,
    \* scene->r.cfra, and the selection bit of the bone / object
    CFRA, sel,
    \* global GL state, and its value when the function was entered
    gl_line_width, gl_point_size, entry_line_width, entry_point_size,
    \* locals of draw_motion_path_instance
    old_width, sfra, efra, len, sind,
    \* position in the function
    pc,
    \* the draw calls issued: immBegin(prim, count) in order, the vertices of
    \* each pass (buffer index read, and colour for the line strip), and the
    \* number of immBindBuiltinProgram calls
    begins, line_verts, dot_verts, step_verts, marker_verts, binds

avs_vars == <<path_type, path_sf, path_ef, path_bc, path_ac, path_step, path_viewflag>>
mpath_vars == <<start_frame, end_frame, points, flag, line_thickness, color>>
input_vars == <<avs_vars, mpath_vars, CFRA, sel, entry_line_width, entry_point_size>>
local_vars == <<old_width, sfra, efra, len, sind>>
log_vars == <<begins, line_verts, dot_verts, step_verts, marker_verts, binds>>
vars == <<input_vars, gl_line_width, gl_point_size, local_vars, pc, log_vars>>

(* ------------------------------ helpers -------------------------------- *)

Abs(x) == IF x < 0 THEN -x ELSE x

\* C's integer division: the quotient is truncated towards zero
\* (a zero divisor is undefined in C; set_motion_path_color flags it in divzero)
CDiv(a, b) ==
    IF b = 0 THEN 0
    ELSE LET q == Abs(a) \div Abs(b)
         IN  IF (a < 0) # (b < 0) THEN -q ELSE q

\* number of positions in mpath->points: one per frame of [start_frame, end_frame]
PointsLen == end_frame - start_frame + 1

\* the frame whose position is stored at index k of mpath->points
FrameOf(k) == start_frame + k

(* ----------------------- set_motion_path_color ------------------------- *)

\* mul_v3_v3fl(r, mpath->color, f) with f given in 1/100: one colour
\* component c (1/100) scaled to 1/10000
mul_v3_v3fl(c, f) == c * f

\* copy_v3_v3(next_color, mpath->color), in the same 1/10000 unit
copy_v3_v3(c) == c * 100

\* #define SET_INTENSITY(A, B, C, min, max): the operands A, B, C are ints,
\* so (C - B) / (C - A) is C's integer division; min and max are in 1/100
SET_INTENSITY(A, B, C, min, max) ==
    ((1 - CDiv(C - B, C - A)) * (max - min)) + min

\* the colour handed to immAttrib3ubv, as the call that computed ubcolor:
\* fn(rgb) for rgb_float_to_uchar, fn(th, base, intensity) for the theme blends.
\* divzero records that the macro's divisor C - A was 0.
UbColor(fn, th, base, intensity, rgb, dz) ==
    [fn |-> fn, th |-> th, base |-> base, intensity |-> intensity,
     rgb |-> rgb, divzero |-> dz]

set_motion_path_color(i, s, sf, ef, prev_color, frame_color, next_color) ==
    LET frame == sf + i
        blend_base == IF Abs(frame - CFRA) = 1 THEN "TH_CFRAME" ELSE "TH_BACK"
    IN  IF frame < CFRA
        THEN IF MOTIONPATH_FLAG_CUSTOM \in flag
             THEN UbColor("rgb_float_to_uchar", "", "", 0, prev_color, FALSE)
             ELSE UbColor("UI_GetThemeColorBlend3ubv", "TH_WIRE", blend_base,
                          IF s THEN SET_INTENSITY(sf, i, CFRA, 25, 75)
                               ELSE SET_INTENSITY(sf, i, CFRA, 68, 92),
                          0, CFRA - sf = 0)
        ELSE IF frame > CFRA
        THEN IF MOTIONPATH_FLAG_CUSTOM \in flag
             THEN UbColor("rgb_float_to_uchar", "", "", 0, next_color, FALSE)
             ELSE UbColor("UI_GetThemeColorBlend3ubv", "TH_BONE_POSE", blend_base,
                          IF s THEN SET_INTENSITY(CFRA, i, ef, 25, 75)
                               ELSE SET_INTENSITY(CFRA, i, ef, 68, 92),
                          0, ef - CFRA = 0)
        ELSE IF MOTIONPATH_FLAG_CUSTOM \in flag
             THEN UbColor("rgb_float_to_uchar", "", "", 0, frame_color, FALSE)
             ELSE UbColor("UI_GetThemeColorBlendShade3ubv", "TH_CFRAME", "TH_BACK",
                          IF s THEN 50 ELSE 99, 0, FALSE)

(* ---------------------- draw_motion_path_instance ---------------------- *)

\* the requested window: "around current frame" or the display range
ReqStart == IF path_type = MOTIONPATH_TYPE_ACFRA THEN CFRA - path_bc ELSE path_sf
ReqEnd == IF path_type = MOTIONPATH_TYPE_ACFRA THEN CFRA + path_ac ELSE path_ef

\* the start clamp left out
ClampStart_NoClamp(s) == s

\* start clamp
ClampStart(s) == IF s < start_frame THEN start_frame ELSE s

\* the end clamp left out
ClampEnd_NoClamp(e) == e

\* end clamp
ClampEnd(e) == IF e > end_frame THEN end_frame ELSE e

\* whole path is out of bounds
OutOfBounds(s, e) == (s > end_frame) \/ (e < start_frame)

\* the NULL test of mpath->points left out
NothingToDraw_NoNullTest(l) == l <= 0

\* nothing to draw
NothingToDraw(l) == (l <= 0) \/ (points = FALSE)

Init ==
    /\ path_type \in {MOTIONPATH_TYPE_RANGE, MOTIONPATH_TYPE_ACFRA}
    \* the fields of avs the chosen path_type does not read are left 0
    /\ path_sf \in (IF path_type = MOTIONPATH_TYPE_RANGE THEN Frames ELSE {0})
    /\ path_ef \in (IF path_type = MOTIONPATH_TYPE_RANGE THEN Frames ELSE {0})
    /\ path_bc \in (IF path_type = MOTIONPATH_TYPE_ACFRA THEN 0 .. MaxOffset ELSE {0})
    /\ path_ac \in (IF path_type = MOTIONPATH_TYPE_ACFRA THEN 0 .. MaxOffset ELSE {0})
    /\ path_step \in 1 .. MaxStep
    /\ path_viewflag \in SUBSET {MOTIONPATH_VIEW_KFRAS}
    /\ start_frame \in Frames
    /\ end_frame \in {e \in Frames : start_frame <= e}
    /\ points \in BOOLEAN
    /\ flag \in SUBSET {MOTIONPATH_FLAG_LINES, MOTIONPATH_FLAG_CUSTOM}
    /\ line_thickness \in 1 .. MaxSize
    /\ color \in 1 .. MaxColor
    /\ CFRA \in Frames
    /\ sel \in BOOLEAN
    /\ gl_line_width \in 1 .. MaxSize
    /\ gl_point_size \in 1 .. MaxSize
    /\ entry_line_width = gl_line_width
    /\ entry_point_size = gl_point_size
    /\ old_width = 0 /\ sfra = 0 /\ efra = 0 /\ len = 0 /\ sind = 0
    /\ pc = "entry"
    /\ begins = <<>> /\ line_verts = <<>> /\ dot_verts = <<>>
    /\ step_verts = <<>> /\ marker_verts = <<>> /\ binds = 0

\* lines 207-260: save the line width, resolve the range, return when there
\* is nothing to draw
ResolveRange ==
    /\ pc = "entry"
    /\ LET s == ClampStart(ReqStart)
           e == ClampEnd(ReqEnd)
       IN  /\ old_width' = gl_line_width
           /\ sfra' = s
           /\ efra' = e
           /\ IF OutOfBounds(s, e)
              THEN pc' = "done" /\ UNCHANGED <<len, sind>>
              ELSE /\ len' = e - s
                   /\ IF NothingToDraw(e - s)
                      THEN pc' = "done" /\ UNCHANGED sind
                      ELSE pc' = "lines" /\ sind' = s - start_frame
    /\ UNCHANGED <<input_vars, gl_line_width, gl_point_size, log_vars>>

\* prev_color and next_color passed in each other's place
LineStripVerts_SwappedColours ==
    [n \in 1 .. len |->
        [k |-> sind + (n - 1),
         col |-> set_motion_path_color(n - 1, sel, sfra, efra,
                     copy_v3_v3(color), mul_v3_v3fl(color, 50),
                     mul_v3_v3fl(color, 25))]]

\* the vertices of the line strip: for (i = 0, mpv = mpv_start; i < len; i++, mpv++)
LineStripVerts ==
    [n \in 1 .. len |->
        [k |-> sind + (n - 1),
         col |-> set_motion_path_color(n - 1, sel, sfra, efra,
                     mul_v3_v3fl(color, 25), mul_v3_v3fl(color, 50),
                     copy_v3_v3(color))]]

\* lines 264-288: the line strip, drawn with the path's line thickness
DrawLineStrip ==
    /\ pc = "lines"
    /\ IF MOTIONPATH_FLAG_LINES \in flag
       THEN /\ gl_line_width' = line_thickness
            /\ binds' = binds + 1
            /\ begins' = Append(begins, [prim |-> GWN_PRIM_LINE_STRIP, count |-> len])
            /\ line_verts' = LineStripVerts
            /\ pc' = "restore"
       ELSE /\ pc' = "dots"
            /\ UNCHANGED <<gl_line_width, binds, begins, line_verts>>
    /\ UNCHANGED <<input_vars, gl_point_size, local_vars,
                   dot_verts, step_verts, marker_verts>>

\* the line width left at the path's thickness
RestoreLineWidth_Skipped ==
    /\ pc = "restore"
    /\ pc' = "dots"
    /\ UNCHANGED <<input_vars, gl_line_width, gl_point_size, local_vars, log_vars>>

\* line 291: back to old line thickness
RestoreLineWidth ==
    /\ pc = "restore"
    /\ gl_line_width' = old_width
    /\ pc' = "dots"
    /\ UNCHANGED <<input_vars, gl_point_size, local_vars, log_vars>>

\* the vertices of the black dots: for (i = 0, mpv = mpv_start; i < len; i++, mpv++)
FrameDotVerts == [n \in 1 .. len |-> sind + (n - 1)]

\* lines 294-310: little black point at each frame
DrawFrameDots ==
    /\ pc = "dots"
    /\ binds' = binds + 1
    /\ gl_point_size' = line_thickness + 1
    /\ begins' = Append(begins, [prim |-> GWN_PRIM_POINTS, count |-> len])
    /\ dot_verts' = FrameDotVerts
    /\ pc' = "steps"
    /\ UNCHANGED <<input_vars, gl_line_width, local_vars,
                   line_verts, step_verts, marker_verts>>

\* the count rounded down instead of up
StepDotCount_Floor(l, stepsize) == l \div stepsize

\* vertex count declared for the step dots
StepDotCount(l, stepsize) == (l + stepsize - 1) \div stepsize

\* for (i = 0, mpv = mpv_start; i < len; i += stepsize, mpv += stepsize)
RECURSIVE StepDotLoop(_, _, _)
StepDotLoop(i, stepsize, acc) ==
    IF i < len
    THEN StepDotLoop(i + stepsize, stepsize, Append(acc, sind + i))
    ELSE acc

\* lines 312-326: dots at each framestep value
DrawStepDots ==
    /\ pc = "steps"
    /\ begins' = Append(begins, [prim |-> GWN_PRIM_POINTS,
                                 count |-> StepDotCount(len, path_step)])
    /\ step_verts' = StepDotLoop(0, path_step, <<>>)
    /\ pc' = "marker"
    /\ UNCHANGED <<input_vars, gl_line_width, gl_point_size, local_vars,
                   line_verts, dot_verts, marker_verts, binds>>

\* the condition under which the big dot of the current frame is drawn
DrawsMarker ==
    /\ MOTIONPATH_VIEW_KFRAS \in path_viewflag
    /\ sfra < CFRA
    /\ CFRA <= efra

\* mpv = mpv_start + (CFRA - sfra)
MarkerIndex == sind + (CFRA - sfra)

\* lines 328-345: big dot where the current frame is, then return
DrawCurrentFrameMarker ==
    /\ pc = "marker"
    /\ IF DrawsMarker
       THEN /\ gl_point_size' = line_thickness + 5
            /\ begins' = Append(begins, [prim |-> GWN_PRIM_POINTS, count |-> 1])
            /\ marker_verts' = <<MarkerIndex>>
       ELSE UNCHANGED <<gl_point_size, begins, marker_verts>>
    /\ pc' = "done"
    /\ UNCHANGED <<input_vars, gl_line_width, local_vars,
                   line_verts, dot_verts, step_verts, binds>>

Next ==
    \/ ResolveRange
    \/ DrawLineStrip
    \/ RestoreLineWidth
    \/ DrawFrameDots
    \/ DrawStepDots
    \/ DrawCurrentFrameMarker

Spec == Init /\ [][Next]_vars

(* ------------------------------ properties ----------------------------- *)

TypeOK ==
    /\ pc \in {"entry", "lines", "restore", "dots", "steps", "marker", "done"}
    /\ gl_line_width \in 1 .. MaxSize
    /\ gl_point_size \in 1 .. MaxSize + 5
    /\ binds \in 0 .. 2
    /\ Len(begins) <= 4

\* indices of mpath->points read by the vertices of each pass
LineIdx == {line_verts[n].k : n \in DOMAIN line_verts}
DotIdx == {dot_verts[n] : n \in DOMAIN dot_verts}
StepIdx == {step_verts[n] : n \in DOMAIN step_verts}
MarkerIdx == {marker_verts[n] : n \in DOMAIN marker_verts}
EmittedIdx == LineIdx \cup DotIdx \cup StepIdx \cup MarkerIdx

AnyVertex == EmittedIdx # {}

NoDrawCall ==
    /\ begins = <<>>
    /\ binds = 0
    /\ ~AnyVertex

\* the requested window lies entirely outside the cached range
WindowOutsideCache == (ReqEnd < start_frame) \/ (ReqStart > end_frame)

\* C1: whenever a vertex is emitted, the resolved range [sfra, efra] lies
\* inside the cached range and inside the requested window, and so does the
\* frame of every emitted vertex.
C1_RangeWithinCacheAndWindow ==
    AnyVertex =>
        /\ start_frame <= sfra /\ efra <= end_frame
        /\ ReqStart <= sfra /\ efra <= ReqEnd
        /\ \A k \in EmittedIdx :
              /\ start_frame <= FrameOf(k) /\ FrameOf(k) <= end_frame
              /\ ReqStart <= FrameOf(k) /\ FrameOf(k) <= ReqEnd

\* a window that starts inside the cache and ends past it was clamped at the
\* end and drawn (cache [1,100], request [90,120] -> [90,100], scaled down)
C1_Witness ==
    /\ pc = "done" /\ AnyVertex
    /\ start_frame < ReqStart /\ end_frame < ReqEnd
    /\ sfra = ReqStart /\ efra = end_frame

\* C2: a window entirely outside the cached range, or a NULL points buffer,
\* makes the call return straight from the range resolution with no
\* immBegin, no vertex and no shader bind.
C2_DegenerateIsNoOp ==
    (WindowOutsideCache \/ points = FALSE) =>
        /\ pc \in {"entry", "done"}
        /\ NoDrawCall

C2_Witness ==
    /\ pc = "done" /\ NoDrawCall
    /\ WindowOutsideCache /\ points = TRUE
    /\ start_frame < end_frame

\* C3: with one position per frame of [start_frame, end_frame] in
\* mpath->points, every position read by any pass has an index in
\* 0 .. end_frame - start_frame.
C3_ReadsWithinBuffer ==
    \A k \in EmittedIdx : 0 <= k /\ k <= PointsLen - 1

\* all four passes drew from a range clamped at both ends, and the marker
\* read the last position of the buffer
C3_Witness ==
    /\ pc = "done"
    /\ LineIdx # {} /\ DotIdx # {} /\ StepIdx # {}
    /\ ReqStart < start_frame /\ end_frame < ReqEnd
    /\ marker_verts = <<PointsLen - 1>>

\* C4: the current-frame marker is drawn if and only if CFRA lies in
\* [sfra, efra], both ends included, and MOTIONPATH_VIEW_KFRAS is set
\* (stated for the calls that draw).
C4_MarkerIffInRange ==
    (pc = "done" /\ DotIdx # {}) =>
        (marker_verts # <<>> <=>
            /\ MOTIONPATH_VIEW_KFRAS \in path_viewflag
            /\ sfra <= CFRA /\ CFRA <= efra)

\* the smallest n with n * S >= L
Ceil(L, S) == CHOOSE n \in 0 .. L : n * S >= L /\ (n - 1) * S < L

\* the immBegin of the step-dot pass
StepBegin == begins[IF MOTIONPATH_FLAG_LINES \in flag THEN 3 ELSE 2]

\* C5: once the step-dot pass has run, it has emitted ceil(len / path_step)
\* dots, that is the count given to its immBegin, and the k-th dot is the
\* position of frame sfra + k * path_step.
C5_StepDotCount ==
    pc \in {"marker", "done"} /\ DotIdx # {} =>
        /\ Len(step_verts) = Ceil(len, path_step)
        /\ StepBegin.prim = GWN_PRIM_POINTS
        /\ StepBegin.count = Len(step_verts)
        /\ \A k \in 0 .. Len(step_verts) - 1 :
              FrameOf(step_verts[k + 1]) = sfra + k * path_step

\* the step does not divide the length: the last group is partial
C5_Witness ==
    /\ pc = "done"
    /\ path_step > 1 /\ len % path_step # 0 /\ len > path_step
    /\ Len(step_verts) = (len \div path_step) + 1

\* C6: whenever the call draws, the black-dot pass has one dot for every
\* frame of sfra .. efra (efra included), the line strip has one vertex for
\* each of these frames when MOTIONPATH_FLAG_LINES is set, and is absent
\* when it is clear.
C6_DotAtEveryFrameOfRange ==
    (pc = "done" /\ DotIdx # {}) =>
        /\ Len(dot_verts) = efra - sfra + 1
        /\ {FrameOf(k) : k \in DotIdx} = sfra .. efra
        /\ IF MOTIONPATH_FLAG_LINES \in flag
           THEN /\ Len(line_verts) = efra - sfra + 1
                /\ {FrameOf(k) : k \in LineIdx} = sfra .. efra
           ELSE line_verts = <<>>

\* C7: in custom-colour mode the colour of a line-strip vertex is
\* rgb_float_to_uchar of 0.25 x, 0.5 x or 1.0 x mpath->color, chosen only by
\* comparing the vertex's frame with CFRA.
C7_CustomColourBuckets ==
    MOTIONPATH_FLAG_CUSTOM \in flag =>
        \A n \in DOMAIN line_verts :
            LET frame == FrameOf(line_verts[n].k)
                col == line_verts[n].col
            IN  /\ col.fn = "rgb_float_to_uchar"
                /\ frame < CFRA => col.rgb = color * 25
                /\ frame = CFRA => col.rgb = color * 50
                /\ frame > CFRA => col.rgb = color * 100

\* a custom-coloured strip with a vertex before, on and after the current frame
C7_Witness ==
    /\ pc = "done"
    /\ MOTIONPATH_FLAG_CUSTOM \in flag
    /\ \E a, b, c \in DOMAIN line_verts :
          /\ FrameOf(line_verts[a].k) < CFRA
          /\ FrameOf(line_verts[b].k) = CFRA
          /\ FrameOf(line_verts[c].k) > CFRA

\* C8: the GL line width differs from its value on entry only between the
\* line strip and the restore that follows it, so it is the entry value on
\* every return path.
C8_LineWidthRestored ==
    gl_line_width # entry_line_width => pc = "restore"

\* a strip was drawn with a thickness other than the entry width
C8_Witness ==
    /\ pc = "done"
    /\ line_verts # <<>>
    /\ line_thickness # entry_line_width
    /\ gl_line_width = entry_line_width

\* C9: on every return path the GL point size is the value it had on entry.
C9_PointSizeRestored ==
    pc = "done" => gl_point_size = entry_point_size

\* the intensity range of the non-custom colours, in 1/100
IntensityMin == IF sel THEN 25 ELSE 68
IntensityMax == IF sel THEN 75 ELSE 92

\* the macro never divides by zero for a vertex of the line strip
NoDivideByZero ==
    \A n \in DOMAIN line_verts : ~line_verts[n].col.divzero

\* C10: in non-custom mode the intensity computed for a line-strip vertex
\* off the current frame lies in [0.25, 0.75] when selected and in
\* [0.68, 0.92] when not, and the macro never divides by zero.
C10_IntensityInRange ==
    MOTIONPATH_FLAG_CUSTOM \notin flag =>
        \A n \in DOMAIN line_verts :
            FrameOf(line_verts[n].k) # CFRA =>
                /\ ~line_verts[n].col.divzero
                /\ IntensityMin <= line_verts[n].col.intensity
                /\ line_verts[n].col.intensity <= IntensityMax

====
